---- MODULE Spec2Model ----
(***************************************************************************)
(* The transaction and snapshot engine behind src/src/lib.rs.              *)
(*                                                                         *)
(* lib.rs is the bridge: every exported function blocks on one call of the *)
(* tikv_client library and converts its result.  The bridge functions are  *)
(* modelled from lib.rs and keep its names (transaction_put, ...).  The    *)
(* library behind them (timestamp source, mutation buffer, locks, two      *)
(* phase commit, lock retry) is not part of lib.rs; it is modelled from    *)
(* the specification's sections 3 to 7 and its operators are prefixed Lib. *)
(*                                                                         *)
(* Keys are natural numbers ordered as the byte strings they stand for;    *)
(* 0 is the empty string.  Timestamps are the ordinals version() returns.  *)
(***************************************************************************)
EXTENDS Integers, Sequences, FiniteSets, TLC

\* ---------------------------------------------------------------- bounds
NTxn == 2
NKeys == 2
NVals == 2
MaxTs == 5
MaxRetry == 1
DefaultRetry == 1
MaxLimit == 2

\* ------------------------------------------------------ program constants
EmptyKey == 0
BackoffBase == 2
BackoffCap == 500

Txns == 1..NTxn
Keys == 1..NKeys
Values == 1..NVals
Snaps == {1}

VARIABLES clock, versions, locks, txn, snap, last, sret, how, given, intent, holds

vars == <<clock, versions, locks, txn, snap, last, sret, how, given, intent, holds>>

\* ------------------------------------------------------------ data model
NoMut == [kind |-> "None", value |-> 0]
Put(v) == [kind |-> "Put", value |-> v]
Delete == [kind |-> "Delete", value |-> 0]

NoLock == [kind |-> "none", owner |-> 0, primary |-> 0, start_ts |-> 0, mut |-> NoMut]

\* no_jitter_backoff(base, cap, max_attempts): at most max_attempts retries.
Backoff(base, cap, max_attempts) == [base |-> base, cap |-> cap, max_attempts |-> max_attempts]

NoTxn ==
    [status |-> "None", mode |-> "Optimistic", start_ts |-> 0, order |-> <<>>,
     buf |-> [k \in Keys |-> NoMut], primary |-> 0, commit_ts |-> 0,
     backoff |-> Backoff(0, 0, 0), attempts |-> 0, call |-> "idle", arg |-> [key |-> 0, ts |-> 0]]

Terminal(status) == status \in {"Committed", "RolledBack", "Failed"}

\* A transaction that reached a terminal state: its buffer is gone, and what
\* is left says when it started and committed.
Ended(x, status) ==
    [NoTxn EXCEPT !.status = status, !.mode = x.mode, !.start_ts = x.start_ts,
                  !.primary = x.primary, !.commit_ts = x.commit_ts, !.backoff = x.backoff]

\* The library's view of the world, passed to and returned by its operations.
St == [clock |-> clock, versions |-> versions, locks |-> locks, txn |-> txn]

Apply(s) ==
    /\ clock' = s.clock
    /\ versions' = s.versions
    /\ locks' = s.locks
    /\ txn' = s.txn

\* ---------------------------------------------------------------- results
None == [some |-> FALSE, value |-> 0]
Some(v) == [some |-> TRUE, value |-> v]

\* What a library call hands back: an error kind ("none" for Ok), an optional
\* value, a key and a timestamp.
LibOk == [err |-> "none", opt |-> None, key |-> 0, ts |-> 0]
LibErr(e) == [err |-> e, opt |-> None, key |-> 0, ts |-> 0]

Out(s, r) == [st |-> s, r |-> r, blocked |-> FALSE]
Blocked(s) == [st |-> s, r |-> LibOk, blocked |-> TRUE]

\* ------------------------------------------------- library: snapshot reads
\* The outcome of the transaction a prewrite lock points back to.
PrimaryState(s, l) ==
    LET cv == {v \in s.versions : v.key = l.primary /\ v.start_ts = l.start_ts}
        pl == s.locks[l.primary]
    IN  IF cv # {} THEN [state |-> "committed", commit_ts |-> (CHOOSE v \in cv : TRUE).commit_ts]
        ELSE IF pl.kind = "prewrite" /\ pl.start_ts = l.start_ts
             THEN [state |-> "indoubt", commit_ts |-> 0]
             ELSE [state |-> "rolledback", commit_ts |-> 0]

\* A reader at ts meets an in-doubt lock on k and must wait for its outcome.
ReadBlocked(s, k, ts) ==
    LET l == s.locks[k]
    IN  l.kind = "prewrite" /\ l.start_ts <= ts /\ PrimaryState(s, l).state = "indoubt"

\* The versions of k a reader at ts can see: the committed ones, and the
\* prewritten one whose primary is already committed.
Visible(s, k, ts) ==
    LET l == s.locks[k]
        p == PrimaryState(s, l)
        resolved == IF l.kind = "prewrite" /\ l.start_ts <= ts
                       /\ p.state = "committed" /\ p.commit_ts <= ts
                    THEN {[commit_ts |-> p.commit_ts, mut |-> l.mut]}
                    ELSE {}
    IN  {[commit_ts |-> v.commit_ts, mut |-> v.mut] :
            v \in {w \in s.versions : w.key = k /\ w.commit_ts <= ts}} \cup resolved

LibReadAt(s, k, ts) ==
    LET vis == Visible(s, k, ts)
    IN  IF vis = {} THEN None
        ELSE LET top == CHOOSE v \in vis : \A w \in vis : w.commit_ts <= v.commit_ts
             IN  IF top.mut.kind = "Put" THEN Some(top.mut.value) ELSE None

\* ------------------------------------------- library: timestamps, begin
LibCurrentTimestamp(s) ==
    Out([s EXCEPT !.clock = @ + 1], [LibOk EXCEPT !.ts = s.clock + 1])

\* A transaction object in Active state with an empty buffer.
LibNewTransaction(s, t, ts, mode, backoff) ==
    Out([s EXCEPT !.txn[t] = [NoTxn EXCEPT !.status = "Active", !.mode = mode,
                                            !.start_ts = ts, !.backoff = backoff]],
        [LibOk EXCEPT !.ts = ts])

\* The retry policy of a transaction begun without one of its own.
DefaultBackoff == Backoff(BackoffBase, BackoffCap, DefaultRetry)

LibBegin(s, t, mode) ==
    LibNewTransaction(LibCurrentTimestamp(s).st, t, s.clock + 1, mode, DefaultBackoff)

\* --------------------------------------------- library: buffer and reads
LibPut(s, t, k, v) ==
    LET x == s.txn[t]
    IN  IF x.status # "Active" THEN Out(s, LibErr("InvalidState"))
        ELSE Out([s EXCEPT !.txn[t].buf[k] = Put(v),
                           !.txn[t].order = IF x.buf[k] = NoMut THEN Append(@, k) ELSE @],
                 LibOk)

LibDelete(s, t, k) ==
    LET x == s.txn[t]
    IN  IF x.status # "Active" THEN Out(s, LibErr("InvalidState"))
        ELSE Out([s EXCEPT !.txn[t].buf[k] = Delete,
                           !.txn[t].order = IF x.buf[k] = NoMut THEN Append(@, k) ELSE @],
                 LibOk)

\* The buffer first, then the backend at the start timestamp.
LibGet(s, t, k) ==
    LET x == s.txn[t]
    IN  IF x.status # "Active" THEN Out(s, LibErr("InvalidState"))
        ELSE IF x.buf[k].kind = "Put" THEN Out(s, [LibOk EXCEPT !.opt = Some(x.buf[k].value)])
        ELSE IF x.buf[k].kind = "Delete" THEN Out(s, LibOk)
        ELSE IF ReadBlocked(s, k, x.start_ts) THEN Blocked(s)
        ELSE Out(s, [LibOk EXCEPT !.opt = LibReadAt(s, k, x.start_ts)])

\* As get; a pessimistic transaction first takes the lock on k, waiting while
\* another transaction holds one (timeout: the client timeout ran out).
LibGetForUpdate(s, t, k, timeout) ==
    LET x == s.txn[t]
        l == s.locks[k]
        held == l.kind # "none" /\ l.owner # t
        locked == IF l.kind = "none"
                  THEN [s EXCEPT !.locks[k] = [kind |-> "pessimistic", owner |-> t, primary |-> k,
                                               start_ts |-> x.start_ts, mut |-> NoMut]]
                  ELSE s
        g == LibGet(locked, t, k)
    IN  IF x.status # "Active" THEN Out(s, LibErr("InvalidState"))
        ELSE IF x.mode = "Optimistic" THEN LibGet(s, t, k)
        ELSE IF held THEN (IF timeout THEN Out(s, LibErr("KeyLockedTimeout")) ELSE Blocked(s))
        ELSE g

\* ------------------------------------------------- library: scan
InRange(k, range) ==
    /\ CASE range.lower.kind = "Included" -> range.lower.key <= k
         [] range.lower.kind = "Excluded" -> range.lower.key < k
         [] OTHER -> TRUE
    /\ CASE range.upper.kind = "Included" -> k <= range.upper.key
         [] range.upper.kind = "Excluded" -> k < range.upper.key
         [] OTHER -> TRUE

\* The entry scan yields for key k: the buffered put, nothing for a buffered
\* delete, else the snapshot's value.
ScanEntry(s, x, k) ==
    IF x.buf[k].kind = "Put" THEN Some(x.buf[k].value)
    ELSE IF x.buf[k].kind = "Delete" THEN None
    ELSE LibReadAt(s, k, x.start_ts)

RECURSIVE ScanFrom(_, _, _, _, _)
ScanFrom(s, x, range, k, limit) ==
    IF k > NKeys \/ limit = 0 THEN <<>>
    ELSE LET e == ScanEntry(s, x, k)
         IN  IF InRange(k, range) /\ e.some
             THEN <<[key |-> k, value |-> e.value]>> \o ScanFrom(s, x, range, k + 1, limit - 1)
             ELSE ScanFrom(s, x, range, k + 1, limit)

LibScan(s, t, range, limit) ==
    LET x == s.txn[t]
    IN  IF x.status # "Active" THEN [st |-> s, r |-> LibErr("InvalidState"), blocked |-> FALSE, kvs |-> <<>>]
        ELSE IF \E k \in Keys : InRange(k, range) /\ x.buf[k] = NoMut /\ ReadBlocked(s, k, x.start_ts)
             THEN [st |-> s, r |-> LibOk, blocked |-> TRUE, kvs |-> <<>>]
             ELSE [st |-> s, r |-> LibOk, blocked |-> FALSE, kvs |-> ScanFrom(s, x, range, 1, limit)]

\* ------------------------------------------------- library: prewrite
\* Prewrite of k by t meets another transaction's lock, or a version committed
\* after t started.
Conflict(s, t, k) ==
    \/ s.locks[k].kind # "none" /\ s.locks[k].owner # t
    \/ \E v \in s.versions : v.key = k /\ v.commit_ts > s.txn[t].start_ts

PrewriteLock(x, t, k, ref) ==
    [kind |-> "prewrite", owner |-> t, primary |-> ref.key, start_ts |-> ref.ts, mut |-> x.buf[k]]

\* A conflict is retried after a backoff delay while the budget lasts; then
\* the call fails and the transaction is Failed.
RetryOrFail(s, t, call, arg) ==
    LET x == s.txn[t]
    IN  IF x.attempts < x.backoff.max_attempts
        THEN [st |-> [s EXCEPT !.txn[t].attempts = @ + 1, !.txn[t].call = call, !.txn[t].arg = arg],
              r |-> LibOk, blocked |-> FALSE, pending |-> TRUE]
        ELSE [st |-> [s EXCEPT !.txn[t] = Ended(x, "Failed")],
              r |-> LibErr("LockConflict"), blocked |-> FALSE, pending |-> FALSE]

Done(s, t, r) ==
    [st |-> [s EXCEPT !.txn[t].call = "idle", !.txn[t].attempts = 0],
     r |-> r, blocked |-> FALSE, pending |-> FALSE]

\* The primary: the key the caller names, else the first key buffered.
SelectPrimary(x, pk) == IF pk = 0 THEN (IF x.order = <<>> THEN 0 ELSE Head(x.order)) ELSE pk

\* One attempt of prewrite_primary; call is the bridge call it runs under.
LibPrewritePrimary(s, t, pk, call) ==
    LET x == s.txn[t]
        k == SelectPrimary(x, pk)
    IN  IF x.status # "Active" THEN Done(s, t, LibErr("InvalidState"))
        ELSE IF Conflict(s, t, k) THEN RetryOrFail(s, t, call, [key |-> pk, ts |-> 0])
        ELSE Done([s EXCEPT !.locks[k] = PrewriteLock(x, t, k, [key |-> k, ts |-> x.start_ts]),
                            !.txn[t].status = "Prewriting",
                            !.txn[t].primary = k],
                  t, [LibOk EXCEPT !.key = k, !.ts = x.start_ts])

\* The buffered keys of t that still lack its prewrite lock.
Remaining(s, t) ==
    {k \in Keys : /\ s.txn[t].buf[k] # NoMut
                  /\ k # s.txn[t].primary
                  /\ ~(s.locks[k].kind = "prewrite" /\ s.locks[k].owner = t)}

\* One attempt of prewrite_secondary: every remaining key free of conflict gets
\* its lock, which points back to ref; the others are retried.
LibPrewriteSecondary(s, t, ref, call) ==
    LET x == s.txn[t]
        free == {k \in Remaining(s, t) : ~Conflict(s, t, k)}
        s1 == [s EXCEPT !.locks = [k \in Keys |-> IF k \in free THEN PrewriteLock(x, t, k, ref) ELSE @[k]]]
    IN  IF x.status # "Prewriting" THEN Done(s, t, LibErr("InvalidState"))
        ELSE IF Remaining(s1, t) # {} THEN RetryOrFail(s1, t, call, ref)
        ELSE Done(s1, t, LibOk)

\* ------------------------------------------------- library: commit
\* A version of k committed at cts replaces any version of k at cts.
AddVersion(vs, k, sts, cts, mut) ==
    {v \in vs : ~(v.key = k /\ v.commit_ts = cts)}
        \cup {[key |-> k, start_ts |-> sts, commit_ts |-> cts, mut |-> mut]}

\* Fetches the commit timestamp and turns the primary lock into a version.
LibCommitPrimary(s, t) ==
    LET x == s.txn[t]
        l == s.locks[x.primary]
        cts == s.clock + 1
    IN  IF x.status # "Prewriting" THEN Done(s, t, LibErr("InvalidState"))
        ELSE Done([s EXCEPT !.clock = cts,
                            !.versions = AddVersion(@, x.primary, l.start_ts, cts, l.mut),
                            !.locks[x.primary] = NoLock,
                            !.txn[t] = [Ended(x, "Committing") EXCEPT !.commit_ts = cts]],
                  t, [LibOk EXCEPT !.ts = cts])

RECURSIVE ResolveLocks(_, _, _, _)
ResolveLocks(vs, ls, ks, cts) ==
    IF ks = {} THEN vs
    ELSE LET k == CHOOSE j \in ks : TRUE
         IN  ResolveLocks(AddVersion(vs, k, ls[k].start_ts, cts, ls[k].mut), ls, ks \ {k}, cts)

\* Turns every lock t still holds into a version at cts and releases its
\* pessimistic locks.  When the backend fails the locks stay behind; the
\* transaction is committed either way.
LibCommitSecondary(s, t, cts, fail) ==
    LET x == s.txn[t]
        mine == {k \in Keys : s.locks[k].owner = t /\ s.locks[k].kind # "none"}
        pre == {k \in mine : s.locks[k].kind = "prewrite"}
    IN  IF x.status # "Committing" THEN Done(s, t, LibErr("InvalidState"))
        ELSE IF fail THEN Done([s EXCEPT !.txn[t] = Ended(x, "Committed")], t, LibErr("BackendError"))
        ELSE Done([s EXCEPT !.versions = ResolveLocks(@, s.locks, pre, cts),
                            !.locks = [k \in Keys |-> IF k \in mine THEN NoLock ELSE @[k]],
                            !.txn[t] = Ended(x, "Committed")],
                  t, LibOk)

\* Discards the buffer and erases every lock t installed.  A lock that cannot
\* be erased (fail) is reported and the transaction stays as it is.
LibRollback(s, t, fail) ==
    LET x == s.txn[t]
        mine == {k \in Keys : s.locks[k].owner = t /\ s.locks[k].kind # "none"}
    IN  IF x.status \notin {"Active", "Prewriting"} THEN Done(s, t, LibErr("InvalidState"))
        ELSE IF fail /\ mine # {} THEN Done(s, t, LibErr("BackendError"))
        ELSE Done([s EXCEPT !.locks = [k \in Keys |-> IF k \in mine THEN NoLock ELSE @[k]],
                            !.txn[t] = Ended(x, "RolledBack")],
                  t, LibOk)

\* commit(): the four steps in sequence, one step at a time.  A transaction
\* that buffered nothing commits at once.
LibCommitStep(s, t, fail) ==
    LET x == s.txn[t]
        go(o) == IF o.pending \/ o.r.err # "none" THEN o
                 ELSE [o EXCEPT !.st.txn[t].call = "commit", !.pending = TRUE]
    IN  CASE x.status = "Active" /\ x.order = <<>> ->
                Done([s EXCEPT !.txn[t] = Ended(x, "Committed")], t, LibOk)
          [] x.status = "Active" /\ x.order # <<>> ->
                go(LibPrewritePrimary(s, t, 0, "commit"))
          [] x.status = "Prewriting" /\ Remaining(s, t) # {} ->
                go(LibPrewriteSecondary(s, t, [key |-> x.primary, ts |-> x.start_ts], "commit"))
          [] x.status = "Prewriting" /\ Remaining(s, t) = {} ->
                go(LibCommitPrimary(s, t))
          [] x.status = "Committing" ->
                [LibCommitSecondary(s, t, x.commit_ts, fail) EXCEPT !.r = LibOk]
          [] OTHER -> Done(s, t, LibErr("InvalidState"))

LibCommit(s, t, fail) ==
    IF s.txn[t].status # "Active" THEN Done(s, t, LibErr("InvalidState"))
    ELSE LibCommitStep(s, t, fail)

\* =================================================== the bridge (lib.rs)
\* What a bridge function returns to its caller: Err(e), or Ok with the
\* fields of OptionalValue / PrewriteResult / the u64 it carries.
BOk == [err |-> "none", is_none |-> TRUE, value |-> 0, key |-> 0, version |-> 0]
BErr(e) == [BOk EXCEPT !.err = e]
Unit == BOk

\* The call that returned last: on which transaction, the state that one was
\* in when the call was made, the call's arguments and what it returned.
NoScan == [start_bound |-> "Unbounded", end_bound |-> "Unbounded", limit |-> 0, kvs |-> <<>>]
NoRet == [t |-> 0, op |-> "none", was |-> "None", akey |-> 0, ats |-> 0, res |-> BOk, scan |-> NoScan]
Ret(t, op, was, akey, ats, res) ==
    [t |-> t, op |-> op, was |-> was, akey |-> akey, ats |-> ats, res |-> res, scan |-> NoScan]

\* Some(value) => {is_none: false, value}; None => {is_none: true, value: empty}.
OptionalValue(opt) ==
    IF opt.some THEN [BOk EXCEPT !.is_none = FALSE, !.value = opt.value]
    ELSE [BOk EXCEPT !.is_none = TRUE, !.value = 0]

\* Faulty variants of bridge functions, which the properties below must tell
\* apart from the bridge.
commit_result_swallowed(r) == Unit
rollback_result_swallowed(r) == Unit
commit_secondary_result_propagated(r) == IF r.err # "none" THEN BErr(r.err) ELSE Unit
snapshot_get_result_flagless(r) ==
    IF r.err # "none" THEN BErr(r.err) ELSE [BOk EXCEPT !.is_none = TRUE, !.value = r.opt.value]
lock_backoff_one_more(retry) == Backoff(BackoffBase, BackoffCap, retry + 1)
prewrite_secondary_args_unversioned(primary_key, start_ts) == [key |-> primary_key, ts |-> 0]
to_bound_range_open(start, start_bound, end, end_bound) ==
    [lower |-> IF start_bound = "Unbounded" THEN [kind |-> "Unbounded", key |-> 0]
               ELSE [kind |-> "Included", key |-> start],
     upper |-> IF end_bound = "Unbounded" THEN [kind |-> "Unbounded", key |-> 0]
               ELSE [kind |-> "Included", key |-> end]]

\* `?` then the conversion of the Ok value.
get_result(r) == IF r.err # "none" THEN BErr(r.err) ELSE OptionalValue(r.opt)
get_for_update_result(r) == IF r.err # "none" THEN BErr(r.err) ELSE OptionalValue(r.opt)
snapshot_get_result(r) == IF r.err # "none" THEN BErr(r.err) ELSE OptionalValue(r.opt)
put_result(r) == IF r.err # "none" THEN BErr(r.err) ELSE Unit
delete_result(r) == IF r.err # "none" THEN BErr(r.err) ELSE Unit
commit_result(r) == IF r.err # "none" THEN BErr(r.err) ELSE Unit
rollback_result(r) == IF r.err # "none" THEN BErr(r.err) ELSE Unit
prewrite_primary_result(r) ==
    IF r.err # "none" THEN BErr(r.err) ELSE [BOk EXCEPT !.key = r.key, !.version = r.ts]
prewrite_secondary_result(r) == IF r.err # "none" THEN BErr(r.err) ELSE Unit
commit_primary_result(r) == IF r.err # "none" THEN BErr(r.err) ELSE [BOk EXCEPT !.version = r.ts]
\* transaction_commit_secondary returns nothing: the library's result is dropped.
commit_secondary_result(r) == Unit
scan_result(r) == IF r.err # "none" THEN BErr(r.err) ELSE Unit

\* An empty primary_key asks the library to select the primary itself.
PrimaryArg(primary_key) == IF primary_key = EmptyKey THEN 0 ELSE primary_key

\* The lock retry policy of begin_optimistic_with_option.
lock_backoff(retry) == Backoff(BackoffBase, BackoffCap, retry)

prewrite_secondary_args(primary_key, start_ts) == [key |-> primary_key, ts |-> start_ts]
commit_secondary_args(commit_ts) == commit_ts

to_bound_range(start, start_bound, end, end_bound) ==
    [lower |-> CASE start_bound = "Included" -> [kind |-> "Included", key |-> start]
                 [] start_bound = "Excluded" -> [kind |-> "Excluded", key |-> start]
                 [] start_bound = "Unbounded" -> [kind |-> "Unbounded", key |-> 0]
                 [] OTHER -> [kind |-> "panic", key |-> 0],
     upper |-> CASE end_bound = "Included" -> [kind |-> "Included", key |-> end]
                 [] end_bound = "Excluded" -> [kind |-> "Excluded", key |-> end]
                 [] end_bound = "Unbounded" -> [kind |-> "Unbounded", key |-> 0]
                 [] OTHER -> [kind |-> "panic", key |-> 0]]

\* ------------------------------------------------------------ actions
Callable(t) == txn[t].status # "None" /\ txn[t].call = "idle"

\* What the caller knows it buffered in a live transaction (of an ended one,
\* which keys it wrote), and the keys a live pessimistic transaction was
\* granted by get_for_update.
Written == [kind |-> "Written", value |-> 0]
NoIntent == [k \in Keys |-> NoMut]
Live(status) == status \in {"Active", "Prewriting"}
Tracked(t, o, upd) ==
    /\ intent' = [intent EXCEPT ![t] =
                     IF Live(o.st.txn[t].status) THEN upd
                     ELSE [k \in Keys |-> IF upd[k] = NoMut THEN NoMut ELSE Written]]
    /\ holds' = [holds EXCEPT ![t] = IF Live(o.st.txn[t].status) THEN @ ELSE {}]

\* The arguments the caller gave the split steps that acted on them: the
\* prewrite_secondary that installed locks, the commit_secondary that followed
\* commit_primary.
NoGiven == [ps |-> <<>>, cs |-> <<>>]

Init ==
    /\ clock = 0
    /\ versions = {}
    /\ locks = [k \in Keys |-> NoLock]
    /\ txn = [t \in Txns |-> NoTxn]
    /\ snap = [h \in Snaps |-> [made |-> FALSE, ts |-> 0]]
    /\ last = NoRet
    /\ sret = [h \in Snaps |-> [key |-> 0, future |-> FALSE, res |-> BOk]]
    /\ how = [t \in Txns |-> [kind |-> "none", retry |-> 0]]
    /\ given = [t \in Txns |-> NoGiven]
    /\ intent = [t \in Txns |-> NoIntent]
    /\ holds = [t \in Txns |-> {}]

Returns(t, op, akey, ats, o, res) ==
    /\ ~o.blocked
    /\ Apply(o.st)
    /\ last' = Ret(t, op, txn[t].status, akey, ats, res)

\* A blocking call: it returns res, or stays in flight while the library
\* sleeps before its next attempt.
Runs(t, op, was, akey, ats, o, res) ==
    /\ Apply(o.st)
    /\ last' = IF o.pending THEN last ELSE Ret(t, op, was, akey, ats, res)
    /\ Tracked(t, o, intent[t])

transaction_client_begin(t) ==
    /\ txn[t].status = "None"
    /\ clock < MaxTs
    /\ Apply(LibBegin(St, t, "Optimistic").st)
    /\ how' = [how EXCEPT ![t] = [kind |-> "optimistic", retry |-> 0]]
    /\ UNCHANGED <<snap, last, sret, given, intent, holds>>

transaction_client_begin_pessimistic(t) ==
    /\ txn[t].status = "None"
    /\ clock < MaxTs
    /\ Apply(LibBegin(St, t, "Pessimistic").st)
    /\ how' = [how EXCEPT ![t] = [kind |-> "pessimistic", retry |-> 0]]
    /\ UNCHANGED <<snap, last, sret, given, intent, holds>>

transaction_client_begin_optimistic_with_option(t, retry) ==
    /\ txn[t].status = "None"
    /\ clock < MaxTs
    /\ LET ts == LibCurrentTimestamp(St)
       IN  Apply(LibNewTransaction(ts.st, t, ts.r.ts, "Optimistic", lock_backoff(retry)).st)
    /\ how' = [how EXCEPT ![t] = [kind |-> "with_option", retry |-> retry]]
    /\ UNCHANGED <<snap, last, sret, given, intent, holds>>

transaction_get(t, key) ==
    /\ Callable(t)
    /\ LET o == LibGet(St, t, key) IN Returns(t, "get", key, 0, o, get_result(o.r))
    /\ UNCHANGED <<snap, sret, how, given, intent, holds>>

\* A variant that reads without locking.
transaction_get_for_update_unlocked(t, key, timeout) ==
    /\ Callable(t)
    /\ LET o == LibGet(St, t, key)
       IN  /\ Returns(t, "get_for_update", key, 0, o, get_for_update_result(o.r))
           /\ holds' = IF get_for_update_result(o.r).err = "none" /\ txn[t].mode = "Pessimistic"
                       THEN [holds EXCEPT ![t] = @ \cup {key}] ELSE holds
    /\ UNCHANGED <<snap, sret, how, given, intent>>

transaction_get_for_update(t, key, timeout) ==
    /\ Callable(t)
    /\ LET o == LibGetForUpdate(St, t, key, timeout)
       IN  /\ Returns(t, "get_for_update", key, 0, o, get_for_update_result(o.r))
           /\ holds' = IF get_for_update_result(o.r).err = "none" /\ txn[t].mode = "Pessimistic"
                       THEN [holds EXCEPT ![t] = @ \cup {key}] ELSE holds
    /\ UNCHANGED <<snap, sret, how, given, intent>>

\* A variant that stores the key's bytes as the value.
transaction_put_key_as_value(t, key, val) ==
    /\ Callable(t)
    /\ LET o == LibPut(St, t, key, key)
       IN  /\ Returns(t, "put", 0, 0, o, put_result(o.r))
           /\ Tracked(t, o, IF put_result(o.r).err = "none" THEN [intent[t] EXCEPT ![key] = Put(val)]
                            ELSE intent[t])
    /\ UNCHANGED <<snap, sret, how, given>>

transaction_put(t, key, val) ==
    /\ Callable(t)
    /\ LET o == LibPut(St, t, key, val)
       IN  /\ Returns(t, "put", 0, 0, o, put_result(o.r))
           /\ Tracked(t, o, IF put_result(o.r).err = "none" THEN [intent[t] EXCEPT ![key] = Put(val)]
                            ELSE intent[t])
    /\ UNCHANGED <<snap, sret, how, given>>

transaction_delete(t, key) ==
    /\ Callable(t)
    /\ LET o == LibDelete(St, t, key)
       IN  /\ Returns(t, "delete", 0, 0, o, delete_result(o.r))
           /\ Tracked(t, o, IF delete_result(o.r).err = "none" THEN [intent[t] EXCEPT ![key] = Delete]
                            ELSE intent[t])
    /\ UNCHANGED <<snap, sret, how, given>>

\* The library defines the primary only among the buffered keys.
PrimaryDefined(t, pk) ==
    \/ txn[t].status # "Active"
    \/ /\ SelectPrimary(txn[t], pk) \in Keys
       /\ txn[t].buf[SelectPrimary(txn[t], pk)] # NoMut

prewrite_primary_run(t, primary_key, was) ==
    LET o == LibPrewritePrimary(St, t, PrimaryArg(primary_key), "prewrite_primary")
    IN  Runs(t, "prewrite_primary", was, 0, 0, o, prewrite_primary_result(o.r))

prewrite_secondary_run(t, primary_key, start_ts, was) ==
    LET a == prewrite_secondary_args(primary_key, start_ts)
        o == LibPrewriteSecondary(St, t, a, "prewrite_secondary")
    IN  Runs(t, "prewrite_secondary", was, 0, 0, o, prewrite_secondary_result(o.r))

commit_run(t, fail, was) ==
    LET o == IF txn[t].call = "commit" THEN LibCommitStep(St, t, fail) ELSE LibCommit(St, t, fail)
    IN  Runs(t, "commit", was, 0, 0, o, commit_result(o.r))

transaction_prewrite_primary(t, primary_key) ==
    /\ Callable(t)
    /\ PrimaryDefined(t, PrimaryArg(primary_key))
    /\ prewrite_primary_run(t, primary_key, txn[t].status)
    /\ UNCHANGED <<snap, sret, how, given>>

transaction_prewrite_secondary(t, primary_key, start_ts) ==
    /\ Callable(t)
    /\ prewrite_secondary_run(t, primary_key, start_ts, txn[t].status)
    /\ given' = IF txn[t].status = "Prewriting" /\ Remaining(St, t) # {}
                THEN [given EXCEPT ![t].ps = <<primary_key, start_ts>>] ELSE given
    /\ UNCHANGED <<snap, sret, how>>

transaction_commit(t) ==
    /\ Callable(t)
    /\ commit_run(t, FALSE, txn[t].status)
    /\ UNCHANGED <<snap, sret, how, given>>

\* The call in flight makes its next attempt (or, for commit, its next step;
\* fail: the backend fails the secondary commits).
Resume(t, fail) ==
    /\ txn[t].call # "idle"
    /\ fail => txn[t].call = "commit" /\ txn[t].status = "Committing"
    /\ CASE txn[t].call = "prewrite_primary" ->
                prewrite_primary_run(t, txn[t].arg.key, "Active")
         [] txn[t].call = "prewrite_secondary" ->
                prewrite_secondary_run(t, txn[t].arg.key, txn[t].arg.ts, "Prewriting")
         [] OTHER -> commit_run(t, fail, "Active")
    /\ UNCHANGED <<snap, sret, how, given>>

transaction_commit_primary(t) ==
    /\ Callable(t)
    /\ txn[t].status = "Prewriting" => clock < MaxTs
    /\ LET o == LibCommitPrimary(St, t)
       IN  /\ Returns(t, "commit_primary", 0, 0, o, commit_primary_result(o.r))
           /\ Tracked(t, o, intent[t])
    /\ UNCHANGED <<snap, sret, how, given>>

transaction_commit_secondary(t, commit_ts, fail) ==
    /\ Callable(t)
    /\ fail => txn[t].status = "Committing"
    /\ LET o == LibCommitSecondary(St, t, commit_secondary_args(commit_ts), fail)
       IN  /\ Returns(t, "commit_secondary", 0, 0, o, commit_secondary_result(o.r))
           /\ Tracked(t, o, intent[t])
    /\ given' = IF txn[t].status = "Committing"
                THEN [given EXCEPT ![t].cs = <<commit_ts>>] ELSE given
    /\ UNCHANGED <<snap, sret, how>>

transaction_rollback(t, fail) ==
    /\ Callable(t)
    /\ fail => /\ txn[t].status \in {"Active", "Prewriting"}
               /\ \E k \in Keys : locks[k].owner = t /\ locks[k].kind # "none"
    /\ LET o == LibRollback(St, t, fail)
       IN  /\ Returns(t, "rollback", 0, 0, o, rollback_result(o.r))
           /\ Tracked(t, o, intent[t])
    /\ UNCHANGED <<snap, sret, how, given>>

transaction_scan(t, start, start_bound, end, end_bound, limit) ==
    /\ Callable(t)
    /\ LET range == to_bound_range(start, start_bound, end, end_bound)
           o == LibScan(St, t, range, limit)
       IN  /\ ~o.blocked
           /\ last' = [Ret(t, "scan", txn[t].status, start, end, scan_result(o.r)) EXCEPT
                          !.scan = [start_bound |-> start_bound, end_bound |-> end_bound,
                                    limit |-> limit, kvs |-> o.kvs]]
    /\ UNCHANGED <<clock, versions, locks, txn, snap, sret, how, given, intent, holds>>

\* ------------------------------------------------------------ snapshots
snapshot_new(h) ==
    /\ clock < MaxTs
    /\ LET ts == LibCurrentTimestamp(St)
       IN  /\ Apply(ts.st)
           /\ snap' = [snap EXCEPT ![h] = [made |-> TRUE, ts |-> ts.r.ts]]
    /\ sret' = [sret EXCEPT ![h] = [key |-> 0, future |-> FALSE, res |-> BOk]]
    /\ UNCHANGED <<last, how, given, intent, holds>>

snapshot_new_with_timestamp(h, timestamp) ==
    /\ snap' = [snap EXCEPT ![h] = [made |-> TRUE, ts |-> timestamp]]
    /\ sret' = [sret EXCEPT ![h] = [key |-> 0, future |-> FALSE, res |-> BOk]]
    /\ UNCHANGED <<clock, versions, locks, txn, last, how, given, intent, holds>>

\* future: the anchor is ahead of every timestamp the source has handed out.
snapshot_get(h, key) ==
    /\ snap[h].made
    /\ ~ReadBlocked(St, key, snap[h].ts)
    /\ sret' = [sret EXCEPT ![h] =
                  [key |-> key, future |-> snap[h].ts > clock,
                   res |-> snapshot_get_result([LibOk EXCEPT !.opt = LibReadAt(St, key, snap[h].ts)])]]
    /\ UNCHANGED <<clock, versions, locks, txn, snap, last, how, given, intent, holds>>

\* --------------------------------------------------------- specifications
\* A caller that keeps to the state machine makes a call only in the states
\* the call is listed for; a caller that does not makes it in any state.
Listed(t, states, strict) == strict => txn[t].status \in states

Begins(t) ==
    \/ transaction_client_begin(t)
    \/ \E retry \in 0..MaxRetry : transaction_client_begin_optimistic_with_option(t, retry)

Buffers(t, vals, strict) ==
    /\ Listed(t, {"Active"}, strict)
    /\ \E key \in Keys :
          \/ \E val \in vals : transaction_put(t, key, val)
          \/ transaction_delete(t, key)

Gets(t, strict) ==
    /\ Listed(t, {"Active"}, strict)
    /\ \E key \in Keys : transaction_get(t, key)

Locks(t, strict) ==
    /\ Listed(t, {"Active"}, strict)
    /\ \E key \in Keys, timeout \in BOOLEAN : transaction_get_for_update(t, key, timeout)

Commits(t, strict) ==
    \/ Listed(t, {"Active"}, strict) /\ transaction_commit(t)
    \/ \E fail \in BOOLEAN : Resume(t, fail)

Rollbacks(t, strict) ==
    /\ Listed(t, {"Active", "Prewriting"}, strict)
    /\ \E fail \in BOOLEAN : transaction_rollback(t, fail)

\* The split commit steps, each given what the step before it returned.
Split(t, strict) ==
    \/ /\ Listed(t, {"Active"}, strict)
       /\ \E primary_key \in {EmptyKey} \cup Keys : transaction_prewrite_primary(t, primary_key)
    \/ /\ Listed(t, {"Prewriting"}, strict)
       /\ transaction_prewrite_secondary(t, txn[t].primary, txn[t].start_ts)
    \/ /\ Listed(t, {"Prewriting"}, strict)
       /\ strict => Remaining(St, t) = {}
       /\ transaction_commit_primary(t)
    \/ /\ Listed(t, {"Committing"}, strict)
       /\ \E fail \in BOOLEAN : transaction_commit_secondary(t, txn[t].commit_ts, fail)

\* The split commit steps with arguments of the caller's choosing.
SplitAny(t, strict) ==
    \/ /\ Listed(t, {"Active"}, strict)
       /\ \E primary_key \in {EmptyKey} \cup Keys : transaction_prewrite_primary(t, primary_key)
    \/ /\ Listed(t, {"Prewriting"}, strict)
       /\ \E primary_key \in Keys, start_ts \in {txn[t].start_ts, MaxTs} :
             transaction_prewrite_secondary(t, primary_key, start_ts)
    \/ /\ Listed(t, {"Prewriting"}, strict)
       /\ transaction_commit_primary(t)
    \/ /\ Listed(t, {"Committing"}, strict)
       /\ \E commit_ts \in {txn[t].commit_ts, MaxTs}, fail \in BOOLEAN :
             transaction_commit_secondary(t, commit_ts, fail)

\* A snapshot at the latest timestamp handed out, or at one the timestamp
\* source has not reached.
Snapshots(h) ==
    \/ \E timestamp \in {clock, MaxTs} : snapshot_new_with_timestamp(h, timestamp)
    \/ \E key \in Keys : snapshot_get(h, key)

\* The bounds a caller passes: a key, included or excluded, or none.
Bounds == (Keys \X {"Included", "Excluded"}) \cup {<<EmptyKey, "Unbounded">>}

Scans(t, strict) ==
    /\ Listed(t, {"Active"}, strict)
    /\ \E lower \in Bounds, upper \in Bounds, limit \in 0..MaxLimit :
          transaction_scan(t, lower[1], lower[2], upper[1], upper[2], limit)

\* Two-phase commit between concurrent optimistic transactions whose callers
\* keep to the state machine.
TwoPhase(t) ==
    \/ Buffers(t, {1}, TRUE)
    \/ Commits(t, TRUE)
    \/ Rollbacks(t, TRUE)
    \/ Split(t, TRUE)

Next == \E t \in Txns : transaction_client_begin(t) \/ TwoPhase(t)

Spec == Init /\ [][Next]_vars

\* The same, between transactions begun with a retry limit.
NextRetry ==
    \E t \in Txns :
        \/ \E retry \in 0..MaxRetry : transaction_client_begin_optimistic_with_option(t, retry)
        \/ TwoPhase(t)

SpecRetry == Init /\ [][NextRetry]_vars

\* One transaction whose caller makes any call in any state, with any
\* arguments.
NextOne ==
    \E t \in {1} :
        \/ Begins(t)
        \/ transaction_client_begin_pessimistic(t)
        \/ Buffers(t, {1}, FALSE)
        \/ Gets(t, FALSE)
        \/ Locks(t, FALSE)
        \/ Commits(t, FALSE)
        \/ Rollbacks(t, FALSE)
        \/ SplitAny(t, FALSE)

SpecOne == Init /\ [][NextOne]_vars

\* Readers next to committing writers: transactions that put, get and commit
\* (transaction 1 also by the split steps, with arguments of its caller's
\* choosing), and a snapshot taken now or at a timestamp of the caller's
\* choosing.
Writer(t) ==
    \/ transaction_client_begin(t)
    \/ Listed(t, {"Active"}, TRUE) /\ \E key \in Keys : transaction_put(t, key, 1)
    \/ Commits(t, TRUE)

NextRead ==
    \/ \E t \in Txns : Writer(t) \/ (t # 1 /\ Gets(t, TRUE))
    \/ SplitAny(1, TRUE)
    \/ \E h \in Snaps : Snapshots(h)

SpecRead == Init /\ [][NextRead]_vars

\* A transaction reading its own puts and deletes over what transaction 1
\* committed, next to a snapshot at a fresh timestamp.
NextOwn ==
    \/ Writer(1)
    \/ \E h \in Snaps : snapshot_new(h) \/ \E key \in Keys : snapshot_get(h, key)
    \/ \E t \in Txns \ {1} :
          \/ transaction_client_begin(t)
          \/ Buffers(t, Values, TRUE)
          \/ Gets(t, TRUE)

SpecOwn == Init /\ [][NextOwn]_vars

\* Pessimistic transactions competing for locks.
NextLock ==
    \E t \in Txns :
        \/ transaction_client_begin_pessimistic(t)
        \/ Locks(t, TRUE)
        \/ Buffers(t, {1}, TRUE)
        \/ Commits(t, TRUE)
        \/ Rollbacks(t, TRUE)

SpecLock == Init /\ [][NextLock]_vars

\* Scans of a transaction's own writes over what transaction 1 committed.
NextScan ==
    \/ Writer(1)
    \/ \E t \in Txns \ {1} :
          \/ transaction_client_begin(t)
          \/ Buffers(t, {1}, TRUE)
          \/ Scans(t, TRUE)

SpecScan == Init /\ [][NextScan]_vars

\* =========================================================== properties
Shared(t1, t2) == \E k \in Keys : intent[t1][k] # NoMut /\ intent[t2][k] # NoMut

\* The writes to k that are committed: its versions, and its prewrite lock
\* once the primary it points to is committed.
Writes(k) ==
    {[start_ts |-> v.start_ts, commit_ts |-> v.commit_ts, mut |-> v.mut] :
        v \in {w \in versions : w.key = k}}
        \cup (IF locks[k].kind = "prewrite" /\ PrimaryState(St, locks[k]).state = "committed"
              THEN {[start_ts |-> locks[k].start_ts,
                     commit_ts |-> PrimaryState(St, locks[k]).commit_ts,
                     mut |-> locks[k].mut]}
              ELSE {})

\* The committed write to k that a reader at ts must see: the newest one
\* committed at or before ts.
Newest(k, ts) ==
    LET seen == {w \in Writes(k) : w.commit_ts <= ts}
    IN  IF seen = {} THEN NoMut
        ELSE (CHOOSE w \in seen : \A u \in seen : u.commit_ts <= w.commit_ts).mut

\* res is what a read of k at ts must return.
ReadsAt(res, k, ts) ==
    /\ res.err = "none"
    /\ IF Newest(k, ts).kind = "Put"
       THEN ~res.is_none /\ res.value = Newest(k, ts).value
       ELSE res.is_none

\* The last call was a get on a transaction that is still Active.
GotActive == last.op = "get" /\ last.res.err = "none" /\ txn[last.t].status = "Active"

Owned(t) == {k \in Keys : locks[k].kind # "none" /\ locks[k].owner = t}

\* Neither transaction committed before the other began.
Overlap(t1, t2) ==
    /\ ~(txn[t1].commit_ts # 0 /\ txn[t1].commit_ts < txn[t2].start_ts)
    /\ ~(txn[t2].commit_ts # 0 /\ txn[t2].commit_ts < txn[t1].start_ts)

\* C1, as stated: of two optimistic transactions that were alive at the same
\* time, wrote the same key and both finished their commit, exactly one is
\* Committed.
C1_ExactlyOneSucceeds ==
    \A t1 \in Txns, t2 \in Txns :
        (t1 # t2 /\ Shared(t1, t2) /\ Overlap(t1, t2)
            /\ txn[t1].status \in {"Committed", "Failed"}
            /\ txn[t2].status \in {"Committed", "Failed"})
        => (txn[t1].status = "Committed") # (txn[t2].status = "Committed")

\* C1, amended: committed writes to one key by different transactions never
\* overlap in time (one commits before the other starts); a commit the bridge
\* reports as Ok is a commit the library made; and a transaction whose call
\* returned LockConflict is Failed and has committed nothing.
C1_NoOverlappingCommit ==
    /\ \A k \in Keys : \A a \in Writes(k), b \in Writes(k) :
          a.start_ts # b.start_ts => (a.commit_ts < b.start_ts \/ b.commit_ts < a.start_ts)
    /\ (last.op \in {"commit", "commit_primary"} /\ last.was \in {"Active", "Prewriting"}
            /\ last.res.err = "none")
       => txn[last.t].status \in {"Committing", "Committed"}
    /\ last.res.err = "LockConflict"
       => /\ txn[last.t].status = "Failed"
          /\ \A v \in versions : v.start_ts # txn[last.t].start_ts

\* C1: two transactions alive at the same time wrote the same key; one is
\* Committed, the other met the conflict and is Failed.
C1_Witness ==
    \E t1 \in Txns, t2 \in Txns :
        /\ t1 # t2 /\ Shared(t1, t2)
        /\ txn[t1].status = "Committed" /\ txn[t1].commit_ts > txn[t2].start_ts
        /\ txn[t2].status = "Failed"
        /\ last.t = t2 /\ last.res.err = "LockConflict"

\* C3: a commit_secondary made after commit_primary succeeded returns no
\* error, whether or not the backend committed the secondaries, and the
\* transaction is Committed with the commit timestamp of its primary.
C3_CommitSecondaryNeverFails ==
    (last.op = "commit_secondary" /\ last.was = "Committing")
    => /\ last.res.err = "none"
       /\ txn[last.t].status = "Committed"
       /\ txn[last.t].commit_ts > txn[last.t].start_ts

\* C3: commit_secondary returned after the backend failed it: the secondary
\* locks of the committed transaction are still in place.
C3_Witness ==
    /\ last.op = "commit_secondary" /\ last.was = "Committing"
    /\ Owned(last.t) # {}

\* C4, as stated: a call on a transaction that was Committed, RolledBack or
\* Failed returns InvalidState.
C4_TerminalRejectsAll ==
    (last.t # 0 /\ Terminal(last.was)) => last.res.err = "InvalidState"

C9_LocksReferenceReturnedPair ==
    \A k \in Keys :
        locks[k].kind = "prewrite"
        => /\ locks[k].primary = txn[locks[k].owner].primary
           /\ locks[k].start_ts = txn[locks[k].owner].start_ts

\* C9, amended: prewrite_primary returns the transaction's primary key and
\* start timestamp and the primary lock references them; a secondary lock
\* references the pair the caller gave prewrite_secondary (the library's own
\* pair when commit() installed it).
C9_LocksReferenceGivenPair ==
    /\ (last.op = "prewrite_primary" /\ last.was = "Active" /\ last.res.err = "none"
            /\ last.res.key # 0)
       => /\ last.res.key = txn[last.t].primary
          /\ last.res.version = txn[last.t].start_ts
    /\ \A k \in Keys :
          locks[k].kind = "prewrite"
          => LET t == locks[k].owner
                 own == <<txn[t].primary, txn[t].start_ts>>
                 ref == <<locks[k].primary, locks[k].start_ts>>
             IN  IF k = txn[t].primary \/ given[t].ps = <<>> THEN ref = own
                 ELSE ref = given[t].ps

\* C9: a secondary lock references a pair other than the one prewrite_primary
\* returned.
C9_Witness ==
    \E k \in Keys :
        /\ locks[k].kind = "prewrite" /\ k # txn[locks[k].owner].primary
        /\ <<locks[k].primary, locks[k].start_ts>>
              # <<txn[locks[k].owner].primary, txn[locks[k].owner].start_ts>>

\* C10: a transaction begun with a retry limit makes at most that many
\* retries; when they are used up its call returns LockConflict, and the
\* transaction is Failed and has committed nothing.
C10_RetryBounded ==
    \A t \in Txns :
        how[t].kind = "with_option"
        => /\ txn[t].attempts <= how[t].retry
           /\ (last.t = t /\ last.res.err = "LockConflict")
              => /\ txn[t].status = "Failed"
                 /\ txn[t].commit_ts = 0
                 /\ \A v \in versions : v.start_ts # txn[t].start_ts

\* C10: a transaction with a retry limit of MaxRetry used it up and Failed.
C10_Witness ==
    /\ last.t # 0 /\ how[last.t].kind = "with_option" /\ how[last.t].retry = MaxRetry
    /\ last.res.err = "LockConflict"
    /\ txn[last.t].status = "Failed"

Forwarded ==
    \A t \in Txns :
        /\ given[t].ps \in {<<>>, <<txn[t].primary, txn[t].start_ts>>}
        /\ given[t].cs \in {<<>>, <<txn[t].commit_ts>>}

C5_ReadYourOwnWrites ==
    GotActive
    => LET m == intent[last.t][last.akey]
       IN  IF m.kind = "Put" THEN ~last.res.is_none /\ last.res.value = m.value
           ELSE IF m.kind = "Delete" THEN last.res.is_none
           ELSE ReadsAt(last.res, last.akey, txn[last.t].start_ts)

\* C5: a get returned nothing for a key the transaction deleted while the
\* backend holds a value for it at the start timestamp.
C5_Witness ==
    /\ GotActive
    /\ intent[last.t][last.akey] = Delete
    /\ Newest(last.akey, txn[last.t].start_ts).kind = "Put"

Between(k, start, start_bound, end, end_bound) ==
    /\ start_bound = "Included" => start <= k
    /\ start_bound = "Excluded" => start < k
    /\ end_bound = "Included" => k <= end
    /\ end_bound = "Excluded" => k < end

\* C8: a scan of an Active transaction returns at most limit pairs, all
\* between the bounds, in strictly ascending key order, none of them a key
\* whose last mutation by the caller is a delete.
C8_ScanBounded ==
    (last.op = "scan" /\ last.res.err = "none" /\ txn[last.t].status = "Active")
    => LET kvs == last.scan.kvs
       IN  /\ Len(kvs) <= last.scan.limit
           /\ \A i \in 1..Len(kvs) :
                 /\ Between(kvs[i].key, last.akey, last.scan.start_bound, last.ats, last.scan.end_bound)
                 /\ intent[last.t][kvs[i].key] # Delete
           /\ \A i \in 1..Len(kvs), j \in 1..Len(kvs) : i < j => kvs[i].key < kvs[j].key

\* C8: a scan returned a pair and left out a key between the bounds that the
\* transaction deleted and the backend holds a value for.
C8_Witness ==
    /\ last.op = "scan" /\ last.res.err = "none" /\ txn[last.t].status = "Active"
    /\ Len(last.scan.kvs) >= 1
    /\ \E k \in Keys :
          /\ Between(k, last.akey, last.scan.start_bound, last.ats, last.scan.end_bound)
          /\ intent[last.t][k] = Delete
          /\ Newest(k, txn[last.t].start_ts).kind = "Put"

====
